---- MODULE Spec2Model ----
(***************************************************************************)
(* Model of src/smart_drone_agent.py: the mission run simulate_mission()   *)
(* performs over the stubbed action functions, and the workflow table      *)
(* AGENT_SPEC that the module declares beside it.                          *)
(*                                                                         *)
(* simulate_mission is one straight-line function.  Each action below is   *)
(* one call of an action function together with the branch the caller      *)
(* takes on its result (the print and the early return included).          *)
(* The action functions are placeholders for real integrations, so the     *)
(* value each returns is an input of the run, drawn from BOOLEAN; the      *)
(* starting battery is drawn from a range around MIN_REQUIRED.  The run    *)
(* of the file as written is the one with battery = DemoBattery and every  *)
(* action function returning its stubbed value.                            *)
(***************************************************************************)
EXTENDS Integers, Sequences, FiniteSets

\* verify_battery_level: MIN_REQUIRED = 85
MIN_REQUIRED == 85

\* simulate_mission: battery = 92
DemoBattery == 92

\* simulate_mission: "battery_end": battery - 20
MissionDrain == 20

\* Starting batteries explored: MIN_REQUIRED - BatterySpan .. MIN_REQUIRED + BatterySpan
BatterySpan == 8

BatteryValues == (MIN_REQUIRED - BatterySpan) .. (MIN_REQUIRED + BatterySpan)

VARIABLES
    pc,       \* position in simulate_mission
    battery,  \* local battery
    route,    \* local route (None before compute_optimal_route returned)
    fusion,   \* local fusion (None before sensor_fusion_loop returned)
    logs,     \* local logs (None before it is assigned)
    calls,    \* the action functions invoked so far, in order, with the
              \* truth value the caller sees
    out       \* the lines simulate_mission itself printed, in order

vars == <<pc, battery, route, fusion, logs, calls, out>>

\* A local that is not bound yet is the empty sequence, a bound one <<value>>.
None == << >>

Some(v) == <<v>>

\* ---------------------------------------------------------------------
\* AGENT_SPEC["workflow"]: the step each action function belongs to.
\* find_drop_point_and_land covers the approach scan and the descent
\* ("# approach and landing").
\* ---------------------------------------------------------------------
PhasesOf(fn) ==
    CASE fn = "verify_battery_level"        -> {"PreflightCheck"}
      [] fn = "run_sensor_health_checks"    -> {"PreflightCheck"}
      [] fn = "compute_optimal_route"       -> {"RoutePlanning"}
      [] fn = "perform_takeoff_sequence"    -> {"Takeoff"}
      [] fn = "sensor_fusion_loop"          -> {"EnRouteNav"}
      [] fn = "perform_collision_avoidance" -> {"EnRouteNav"}
      [] fn = "find_drop_point_and_land"    -> {"Approach", "Landing"}
      [] fn = "actuate_servo_release"       -> {"Landing"}
      [] fn = "post_delivery_upload"        -> {"PostDeliveryUpload"}
      [] fn = "critic_review_and_learning"  -> {"CriticReview"}
      [] OTHER                              -> {}

\* AGENT_SPEC["workflow"][0]["actions"]: the pre-flight action list.
PreflightActions ==
    << "verify_battery_level", "run_sensor_health_checks",
       "confirm_no_fly_zones_and_permits", "download_mission_plan" >>

\* AGENT_SPEC["workflow"]: the mission steps in order, by phase name
\* (steps 0..8; step 9 is the critic's review).
WorkflowPhases ==
    << "PreflightCheck", "RoutePlanning", "Takeoff", "EnRouteNav", "Approach",
       "Landing", "PostDeliveryUpload", "ReturnOrNext", "Charging" >>

\* ---------------------------------------------------------------------
\* The action functions
\* ---------------------------------------------------------------------
verify_battery_level_strict(current_pct) == current_pct > MIN_REQUIRED

verify_battery_level(current_pct) == current_pct >= MIN_REQUIRED

compute_optimal_route(origin, destination, battery_pct) ==
    [path |-> <<origin, "waypoint1", "waypoint2", destination>>, eta_min |-> 12]

Call(fn, ok) == Append(calls, [fn |-> fn, ok |-> ok])

\* ---------------------------------------------------------------------
\* simulate_mission
\* ---------------------------------------------------------------------
Init ==
    /\ pc = "verify_battery"
    /\ battery \in BatteryValues
    /\ route = None
    /\ fusion = None
    /\ logs = None
    /\ calls = << >>
    /\ out = << >>

\* if not verify_battery_level(battery): print(...); return
VerifyBattery ==
    /\ pc = "verify_battery"
    /\ LET ok == verify_battery_level(battery) IN
        /\ calls' = Call("verify_battery_level", ok)
        /\ IF ok
             THEN pc' = "sensor_health" /\ out' = out
             ELSE pc' = "returned" /\ out' = Append(out, "Abort: battery insufficient.")
    /\ UNCHANGED <<battery, route, fusion, logs>>

\* if not run_sensor_health_checks(): print(...); return
SensorHealth ==
    /\ pc = "sensor_health"
    /\ \E ok \in BOOLEAN :
        /\ calls' = Call("run_sensor_health_checks", ok)
        /\ IF ok
             THEN pc' = "route" /\ out' = out
             ELSE pc' = "returned" /\ out' = Append(out, "Abort: sensor health failed.")
    /\ UNCHANGED <<battery, route, fusion, logs>>

\* route = compute_optimal_route(origin, destination, battery); print("Planned route:", route)
ComputeRoute ==
    /\ pc = "route"
    /\ route' = Some(compute_optimal_route("DistributionCenterA", "Customer_123_MainSt", battery))
    /\ calls' = Call("compute_optimal_route", TRUE)
    /\ out' = Append(out, "Planned route:")
    /\ pc' = "takeoff"
    /\ UNCHANGED <<battery, fusion, logs>>

PerformTakeoffNoAbort ==
    /\ pc = "takeoff"
    /\ \E ok \in BOOLEAN :
        /\ calls' = Call("perform_takeoff_sequence", ok)
        /\ pc' = "fusion"
        /\ out' = IF ok THEN out ELSE Append(out, "Abort: takeoff failed.")
    /\ UNCHANGED <<battery, route, fusion, logs>>

\* if not perform_takeoff_sequence(): print(...); return
PerformTakeoff ==
    /\ pc = "takeoff"
    /\ \E ok \in BOOLEAN :
        /\ calls' = Call("perform_takeoff_sequence", ok)
        /\ IF ok
             THEN pc' = "fusion" /\ out' = out
             ELSE pc' = "returned" /\ out' = Append(out, "Abort: takeoff failed.")
    /\ UNCHANGED <<battery, route, fusion, logs>>

\* fusion = sensor_fusion_loop(); if fusion.get("obstacle_detected"): ...
SensorFusion ==
    /\ pc = "fusion"
    /\ \E obstacle \in BOOLEAN :
        /\ fusion' = Some([obstacle_detected |-> obstacle])
        /\ calls' = Call("sensor_fusion_loop", obstacle)
        /\ pc' = IF obstacle THEN "avoid" ELSE "land"
    /\ UNCHANGED <<battery, route, logs, out>>

\* perform_collision_avoidance(): the result is dropped
CollisionAvoidance ==
    /\ pc = "avoid"
    /\ \E ok \in BOOLEAN :
        calls' = Call("perform_collision_avoidance", ok)
    /\ pc' = "land"
    /\ UNCHANGED <<battery, route, fusion, logs, out>>

\* if not find_drop_point_and_land(): print(...); return
FindDropPointAndLand ==
    /\ pc = "land"
    /\ \E ok \in BOOLEAN :
        /\ calls' = Call("find_drop_point_and_land", ok)
        /\ IF ok
             THEN pc' = "release" /\ out' = out
             ELSE pc' = "returned" /\ out' = Append(out, "Abort: landing failed.")
    /\ UNCHANGED <<battery, route, fusion, logs>>

\* if not actuate_servo_release(): print(warning) else: print(success)
ServoRelease ==
    /\ pc = "release"
    /\ \E ok \in BOOLEAN :
        /\ calls' = Call("actuate_servo_release", ok)
        /\ out' = Append(out, IF ok THEN "Package released successfully."
                                    ELSE "Warning: release failed; marking for manual follow-up.")
    /\ pc' = "upload"
    /\ UNCHANGED <<battery, route, fusion, logs>>

\* logs = {...}; post_delivery_upload(logs): the result is dropped
PostDeliveryUpload ==
    /\ pc = "upload"
    /\ logs' = Some([route |-> route[1], battery_end |-> battery - MissionDrain, delivered |-> TRUE])
    /\ \E ok \in BOOLEAN :
        calls' = Call("post_delivery_upload", ok)
    /\ pc' = "critic"
    /\ UNCHANGED <<battery, route, fusion, out>>

\* critic_review_and_learning(logs); print("=== MISSION COMPLETE ===")
CriticReview ==
    /\ pc = "critic"
    /\ \E kpi_ok \in BOOLEAN :
        calls' = Call("critic_review_and_learning", kpi_ok)
    /\ out' = Append(out, "=== MISSION COMPLETE ===")
    /\ pc' = "complete"
    /\ UNCHANGED <<battery, route, fusion, logs>>

Next ==
    \/ VerifyBattery
    \/ SensorHealth
    \/ ComputeRoute
    \/ PerformTakeoff
    \/ SensorFusion
    \/ CollisionAvoidance
    \/ FindDropPointAndLand
    \/ ServoRelease
    \/ PostDeliveryUpload
    \/ CriticReview

Spec == Init /\ [][Next]_vars

\* ---------------------------------------------------------------------
\* Observations over the run
\* ---------------------------------------------------------------------
Called(fn) == \E i \in 1..Len(calls) : calls[i].fn = fn

CalledWith(fn, ok) == \E i \in 1..Len(calls) : calls[i].fn = fn /\ calls[i].ok = ok

Printed(line) == \E i \in 1..Len(out) : out[i] = line

Terminated == pc \in {"returned", "complete"}

PhasesEntered == UNION { PhasesOf(calls[i].fn) : i \in 1..Len(calls) }

\* The order simulate_mission calls the action functions in.
StepOrder ==
    << "verify_battery_level", "run_sensor_health_checks", "compute_optimal_route",
       "perform_takeoff_sequence", "sensor_fusion_loop", "perform_collision_avoidance",
       "find_drop_point_and_land", "actuate_servo_release", "post_delivery_upload",
       "critic_review_and_learning" >>

Rank(fn) == CHOOSE k \in 1..Len(StepOrder) : StepOrder[k] = fn

\* ---------------------------------------------------------------------
\* C1.  The pre-flight battery gate is inclusive at MIN_REQUIRED = 85: with
\* a starting battery below 85 the only action function ever called is
\* verify_battery_level and the run returns with "Abort: battery
\* insufficient."; with a battery of 85 or more the battery check never
\* aborts the run, and once the sensor health check has passed as well the
\* run is at route planning or beyond.
\* ---------------------------------------------------------------------
C1_BatteryGate ==
    /\ battery < MIN_REQUIRED =>
         /\ pc \in {"verify_battery", "returned"}
         /\ \A i \in 1..Len(calls) : calls[i].fn = "verify_battery_level" /\ ~calls[i].ok
         /\ pc = "returned" => Printed("Abort: battery insufficient.")
    /\ battery >= MIN_REQUIRED =>
         /\ ~Printed("Abort: battery insufficient.")
         /\ Called("verify_battery_level") => CalledWith("verify_battery_level", TRUE)
         /\ CalledWith("run_sensor_health_checks", TRUE) =>
                /\ Called("compute_optimal_route") \/ pc = "route"
                /\ pc \notin {"verify_battery", "sensor_health"}

\* Witness for C1: at the threshold itself, 85, both checks passed and the
\* run stands at route planning.
C1_Witness ==
    /\ battery = MIN_REQUIRED
    /\ pc = "route"
    /\ CalledWith("verify_battery_level", TRUE)
    /\ CalledWith("run_sensor_health_checks", TRUE)

\* ---------------------------------------------------------------------
\* C2 (as claimed).  Whenever the run is past the pre-flight step, all three
\* pre-flight checks have passed: battery, sensor health, and the
\* no-fly-zone / permit check that AGENT_SPEC lists as a pre-flight action.
\* ---------------------------------------------------------------------
C2_PreflightGateAllThree ==
    Called("compute_optimal_route") =>
        /\ battery >= MIN_REQUIRED
        /\ \A k \in 1..3 : CalledWith(PreflightActions[k], TRUE)

SafetyCriticalFns ==
    { "verify_battery_level", "run_sensor_health_checks", "perform_takeoff_sequence",
      "find_drop_point_and_land", "actuate_servo_release" }

\* ---------------------------------------------------------------------
\* C5 (as claimed).  A failed action of a safety-critical step is the last
\* action of the run: the run has returned, nothing was called after it,
\* and the mission is reported neither complete nor delivered.
\* ---------------------------------------------------------------------
C5_CriticalFailureAborts ==
    \A i \in 1..Len(calls) :
        (calls[i].fn \in SafetyCriticalFns /\ ~calls[i].ok) =>
            /\ i = Len(calls)
            /\ pc = "returned"
            /\ ~Printed("=== MISSION COMPLETE ===")
            /\ logs = None

\* ---------------------------------------------------------------------
\* C6 (as claimed).  Every run that has ended, aborted or complete, has
\* handed its log to the telemetry uploader.
\* ---------------------------------------------------------------------
C6_UploadOnEveryEnd ==
    Terminated => Called("post_delivery_upload")

\* ---------------------------------------------------------------------
\* C8 (as claimed).  With battery 92, no obstacle and every action
\* succeeding, the completed run has gone through every phase of the
\* workflow, ReturnOrNext and Charging included, and no abort was printed.
\* ---------------------------------------------------------------------
C8_NominalReachesCharging ==
    (/\ pc = "complete"
     /\ battery = DemoBattery
     /\ \A i \in 1..Len(calls) :
            calls[i].ok = (calls[i].fn # "sensor_fusion_loop")) =>
        /\ \A k \in 1..Len(WorkflowPhases) : WorkflowPhases[k] \in PhasesEntered
        /\ \A i \in 1..Len(out) :
               out[i] \in {"Planned route:", "Package released successfully.",
                           "=== MISSION COMPLETE ==="}

\* ---------------------------------------------------------------------
\* C10.  Whatever the action functions return, simulate_mission calls each
\* of them at most once and only in the fixed order of StepOrder; takeoff
\* is called only after the battery and sensor checks returned True, the
\* servo release only after takeoff and landing returned True, and the
\* collision avoidance only right after a fusion result with
\* obstacle_detected.
\* ---------------------------------------------------------------------
C10_StepOrder ==
    /\ \A i \in 1..Len(calls) : \E k \in 1..Len(StepOrder) : StepOrder[k] = calls[i].fn
    /\ \A i, j \in 1..Len(calls) : i < j => Rank(calls[i].fn) < Rank(calls[j].fn)
    /\ Called("perform_takeoff_sequence") =>
          /\ CalledWith("verify_battery_level", TRUE)
          /\ CalledWith("run_sensor_health_checks", TRUE)
    /\ Called("actuate_servo_release") =>
          /\ CalledWith("perform_takeoff_sequence", TRUE)
          /\ CalledWith("find_drop_point_and_land", TRUE)
    /\ Called("perform_collision_avoidance") =>
          /\ CalledWith("sensor_fusion_loop", TRUE)
          /\ fusion # None /\ fusion[1].obstacle_detected

\* Witness for C10: a run in which the avoidance manoeuvre was called and
\* the package was later released.
C10_Witness ==
    /\ Called("perform_collision_avoidance")
    /\ Called("actuate_servo_release")
    /\ pc = "complete"

====
